---- MODULE Spec2Model ----
(***************************************************************************)
(* Model of the quiz session of synapsy-app: the answer graders and the   *)
(* QuizView state machine (src/components/QuizView.tsx) as mounted by App *)
(* (src/App.tsx).                                                          *)
(*                                                                         *)
(* Text is a sequence of one-character strings, so that normalisation,    *)
(* containment and comparison are computed as the code computes them.     *)
(* One action is one browser event (click, drag, interval tick) together  *)
(* with the React render and the effects that the event's state updates   *)
(* trigger.                                                                *)
(***************************************************************************)
EXTENDS Integers, Sequences, FiniteSets, TLC

\* ------------------------------------------------------------------ bounds
\* Longest question list of the long (choice / flashcard) sessions.
MaxQ == 5
\* The positive per-question time limit, in ticks (the app offers 30/60/120).
MaxTime == 2

\* bossHealth is a JavaScript number; it is kept here in fixed point, Scale
\* units to one health point.
Scale == 1000

\* Longest option text of the grading sessions.
MaxOptLen == 7

\* ------------------------------------------------------------ text helpers
SetMin(S) == CHOOSE x \in S : \A y \in S : x <= y
SetMax(S) == CHOOSE x \in S : \A y \in S : x >= y

UpperChars == <<"A","B","C","D","E","F","G","H","I","J","K","L","M",
                "N","O","P","Q","R","S","T","U","V","W","X","Y","Z">>
LowerChars == <<"a","b","c","d","e","f","g","h","i","j","k","l","m",
                "n","o","p","q","r","s","t","u","v","w","x","y","z">>
DigitChars == {"0","1","2","3","4","5","6","7","8","9"}

Range(f) == {f[i] : i \in DOMAIN f}

\* \s of the regular expressions
IsSpace(c) == c \in {" ", "\t", "\n"}
\* [a-z0-9]
IsLowerAlnum(c) == c \in Range(LowerChars) \cup DigitChars
\* \w
IsWord(c) == c \in Range(LowerChars) \cup Range(UpperChars) \cup DigitChars \cup {"_"}

lowerChar(c) ==
  IF \E i \in 1..26 : UpperChars[i] = c
    THEN LowerChars[CHOOSE i \in 1..26 : UpperChars[i] = c]
    ELSE c

\* String.prototype.toLowerCase
toLowerCase(s) == [i \in 1..Len(s) |-> lowerChar(s[i])]

\* String.prototype.trim
trim(s) ==
  LET keep == {i \in 1..Len(s) : ~IsSpace(s[i])}
  IN IF keep = {} THEN <<>> ELSE SubSeq(s, SetMin(keep), SetMax(keep))

\* String.prototype.includes
includes(s, t) ==
  \E i \in 0..(Len(s) - Len(t)) : SubSeq(s, i + 1, i + Len(t)) = t

\* s.replace(/[.,;!]+$/, '')
stripTrailingPunct(s) ==
  LET keep == {i \in 1..Len(s) : s[i] \notin {".", ",", ";", "!"}}
  IN IF keep = {} THEN <<>> ELSE SubSeq(s, 1, SetMax(keep))

\* s.replace(/^[a-z0-9]+[.):-]\s+/, '')
\* k is the position after the leading [a-z0-9]* run of s.
stripMarkerAt(s, k) ==
  IF /\ k >= 2
     /\ k + 1 <= Len(s)
     /\ s[k] \in {".", ")", ":", "-"}
     /\ IsSpace(s[k + 1])
    THEN IF \A i \in (k + 1)..Len(s) : IsSpace(s[i]) THEN <<>>
         ELSE SubSeq(s, SetMin({i \in (k + 1)..Len(s) : ~IsSpace(s[i])}), Len(s))
    ELSE s

stripListMarker(s) ==
  stripMarkerAt(s, IF \A i \in 1..Len(s) : IsLowerAlnum(s[i]) THEN Len(s) + 1
                   ELSE SetMin({i \in 1..Len(s) : ~IsLowerAlnum(s[i])}))

\* undefined / null for an optional text (no text contains this character)
Undefined == <<"\\undefined">>
Null == <<"\\null">>

normalizeOptionText(text) ==
  IF text = Undefined \/ text = Null \/ text = <<>> THEN <<>>
  ELSE trim(stripListMarker(stripTrailingPunct(trim(toLowerCase(text)))))

\* isOptionMatch on the two normalized texts
matchesNormalized(n1, n2) ==
  \/ n1 = n2
  \/ /\ Len(n1) > 3
     /\ Len(n2) > 3
     /\ (includes(n1, n2) \/ includes(n2, n1))

isOptionMatch(opt1, opt2) ==
  matchesNormalized(normalizeOptionText(opt1), normalizeOptionText(opt2))

\* the inner normalize of checkTextAnswer
normalizeText(str) ==
  IF str = Undefined \/ str = <<>> THEN <<>>
  ELSE trim(SelectSeq(toLowerCase(str), LAMBDA c : IsWord(c) \/ IsSpace(c)))

\* checkTextAnswer on the two normalized texts
textMatches(u, c) ==
  IF u = <<>> \/ c = <<>> THEN FALSE
  ELSE \/ u = c
       \/ (Len(c) > 3 /\ includes(u, c))
       \/ (Len(u) > 3 /\ includes(c, u))

checkTextAnswer(userAnswer, correctAnswer) ==
  IF correctAnswer = Undefined \/ correctAnswer = <<>> THEN FALSE
  ELSE textMatches(normalizeText(userAnswer), normalizeText(correctAnswer))


\* ------------------------------------------------------- the question list
\* An item of an ordering question is a text; orderingItems may be missing.
UndefinedItems == << <<"\\undefined">> >>
UndefinedPairs == <<[left |-> "\\undefined", right |-> "\\undefined"]>>
NullLeft == "\\null"
NoDrag == -1

QuestionType == {"MULTIPLE_CHOICE", "TRUE_FALSE", "SHORT_ANSWER", "ORDERING",
                 "MATCHING", "FILL_IN_THE_BLANK", "FLASHCARD"}

Question(type, options, correctAnswer, orderingItems, matchingPairs) ==
  [type |-> type, options |-> options, correctAnswer |-> correctAnswer,
   orderingItems |-> orderingItems, matchingPairs |-> matchingPairs]

QChoice ==
  Question("MULTIPLE_CHOICE", << <<"a">>, <<"b">> >>, <<"a">>,
           UndefinedItems, UndefinedPairs)
QShort ==
  Question("SHORT_ANSWER", <<>>, <<"o","k">>, UndefinedItems, UndefinedPairs)
QOrdering ==
  Question("ORDERING", <<>>, <<>>, << <<"A">>, <<"B">>, <<"C">> >>, UndefinedPairs)
QOrderingNoItems ==
  Question("ORDERING", <<>>, <<>>, UndefinedItems, UndefinedPairs)
QMatching ==
  Question("MATCHING", <<>>, <<>>, UndefinedItems,
           <<[left |-> "L1", right |-> "R1"], [left |-> "L2", right |-> "R2"]>>)
QMatchingNoPairs ==
  Question("MATCHING", <<>>, <<>>, UndefinedItems, UndefinedPairs)
QFlashcard ==
  Question("FLASHCARD", <<>>, <<"b","a","c","k">>, UndefinedItems, UndefinedPairs)

\* What the user may type into the text area.
TextInputs == { <<"o","k">>, <<"n","o">> }

AllQuestions == {QChoice, QShort, QOrdering, QOrderingNoItems, QMatching,
                 QMatchingNoPairs, QFlashcard}
LongQuestions == {QChoice, QFlashcard}

\* The question lists a session is started with: every list of one or two
\* questions of any type, and every list of up to MaxQ choice / flashcard
\* questions.
QuestionLists ==
  {<<a>> : a \in AllQuestions}
    \cup {<<a, b>> : a \in AllQuestions, b \in AllQuestions}
    \cup UNION {[1..n -> LongQuestions] : n \in 1..MaxQ}

\* The orders [...].sort(() => Math.random() - 0.5) can leave an array in.
Shuffles(seq) ==
  LET n == Len(seq)
  IN {[i \in 1..n |-> seq[p[i]]] :
        p \in {f \in [1..n -> 1..n] : \A i, j \in 1..n : i # j => f[i] # f[j]}}

\* ------------------------------------------------------------------- state
VARIABLES
  questions,      \* QuizView prop: the question list (App state `questions`)
  timeLimit,      \* QuizView prop: activeSettings.timeLimit
  isBossMode,     \* mode === 'BOSS_BATTLE'
  enableExplainItBack,  \* settings.enableExplainItBack
  appState,       \* App state: which view is mounted
  app,            \* the other App state, the stored history, the requests in
                  \* flight and the settings of InputView
  lastResult,     \* App state: the QuizResult handed to onFinish
  qv,             \* the useState cells of the mounted QuizView, and its timers
  verdicts,       \* history: how many submits recorded a correct / an incorrect verdict
  lastOp          \* history: the last event handled

vars == <<questions, timeLimit, isBossMode, enableExplainItBack, appState,
          app, lastResult, qv, verdicts, lastOp>>

NoResult == [score |-> -1, totalQuestions |-> -1, correctAnswers |-> -1,
             xpEarned |-> -1]

\* questions[i] of an index outside the list
UndefinedQuestion ==
  [type |-> "\\undefined", options |-> <<>>, correctAnswer |-> Undefined,
   orderingItems |-> UndefinedItems, matchingPairs |-> UndefinedPairs]

\* const currentQuestion = questions[currentIndex]  (0-based index)
currentQuestion(s) ==
  IF s.currentIndex < Len(questions) THEN questions[s.currentIndex + 1]
  ELSE UndefinedQuestion
isShortAnswer(s) == currentQuestion(s).type = "SHORT_ANSWER"
isFillInBlank(s) == currentQuestion(s).type = "FILL_IN_THE_BLANK"
isOrdering(s) == currentQuestion(s).type = "ORDERING"
isMatching(s) == currentQuestion(s).type = "MATCHING"
isFlashcard(s) == currentQuestion(s).type = "FLASHCARD"
isChoice(s) ==
  ~isShortAnswer(s) /\ ~isFillInBlank(s) /\ ~isOrdering(s) /\ ~isMatching(s)
    /\ ~isFlashcard(s)

EmptyMatches == [l \in {} |-> ""]

\* explanationFeedback: null, or what the catch of submitExplanation sets
NoFeedback == [isCorrect |-> FALSE, feedback |-> "\\null"]
CouldNotVerify == [isCorrect |-> FALSE, feedback |-> "Could not verify."]

\* The useState initial values of a freshly mounted QuizView.
InitialState ==
  [currentIndex |-> 0,
   selectedOption |-> Null,
   isAnswerRevealed |-> FALSE,
   score |-> 0,
   textAnswer |-> <<>>,
   isCurrentCorrect |-> FALSE,
   bossHealth |-> 100 * Scale,
   playerHealth |-> 3,
   showExplainModal |-> FALSE,
   userExplanation |-> <<>>,
   explanationFeedback |-> NoFeedback,
   isCheckingExplanation |-> FALSE,
   validations |-> <<>>,
   explainedIndex |-> -1,
   timeLeft |-> timeLimit,
   isTimeUp |-> FALSE,
   orderingState |-> <<>>,
   draggedIdx |-> NoDrag,
   matchingState |-> [matches |-> EmptyMatches, selectedLeft |-> NullLeft,
                      shuffledRight |-> <<>>],
   isCardFlipped |-> FALSE,
   timers |-> {},
   explainTimers |-> 0]


\* --------------------------------------------------------------- effects
\* The question-reset effect (deps: currentIndex, timeLimit, currentQuestion).
\* ord and right are the outcomes of the two random sorts.
resetEffect(s, ord, right) ==
  [s EXCEPT !.selectedOption = Null,
            !.isAnswerRevealed = FALSE,
            !.textAnswer = <<>>,
            !.isCurrentCorrect = FALSE,
            !.isTimeUp = FALSE,
            !.draggedIdx = NoDrag,
            !.isCardFlipped = FALSE,
            !.showExplainModal = FALSE,
            !.userExplanation = <<>>,
            !.explanationFeedback = NoFeedback,
            !.timeLeft = IF timeLimit > 0 THEN timeLimit ELSE @,
            !.orderingState =
               IF /\ currentQuestion(s).type = "ORDERING"
                  /\ currentQuestion(s).orderingItems # UndefinedItems
                 THEN ord ELSE @,
            !.matchingState =
               IF /\ currentQuestion(s).type = "MATCHING"
                  /\ currentQuestion(s).matchingPairs # UndefinedPairs
                 THEN [matches |-> EmptyMatches, selectedLeft |-> NullLeft,
                       shuffledRight |-> right]
                 ELSE @]

\* The random sorts of resetEffect for the question at 0-based index i.
OrderShuffles(i) ==
  LET q == questions[i + 1]
  IN IF q.type = "ORDERING" /\ q.orderingItems # UndefinedItems
       THEN Shuffles(q.orderingItems) ELSE {<<>>}

RightShuffles(i) ==
  LET q == questions[i + 1]
  IN IF q.type = "MATCHING" /\ q.matchingPairs # UndefinedPairs
       THEN Shuffles([k \in 1..Len(q.matchingPairs) |-> q.matchingPairs[k].right])
       ELSE {<<>>}

\* ---------------------------------------------------------------- grading
\* Is 100 / n, and every multiple of it up to 100, exactly representable?
FloatExact(n) == \E j \in 0..8 : (100 * (2 ^ j)) % n = 0

\* Rounding of one floating-point subtraction, in units (far coarser than an
\* ulp): none when the operands are exact, at most one unit either way if not.
RoundErr(n) == IF FloatExact(n) THEN {0} ELSE {-1, 0, 1}

\* Mutant: every hit takes a fifth of the opponent's health.
damagePerHit_fifth(n) == (100 * Scale) \div 5

\* const damagePerHit = 100 / questions.length
damagePerHit(n) == (100 * Scale) \div n

\* Mutant: no snap to zero.
bossHit_noSnap(prev, n, e) == prev - damagePerHit(n) + e

\* setBossHealth(prev => { const next = prev - damagePerHit; return next < 1 ? 0 : next })
bossHit(prev, n, e) ==
  LET next == prev - damagePerHit(n) + e
  IN IF next < 1 * Scale THEN 0 ELSE next

\* Mutant: the life counter is not decremented.
playerHit_none(prev) == prev

\* setPlayerHealth(prev => Math.max(0, prev - 1))
playerHit(prev) == IF prev - 1 > 0 THEN prev - 1 ELSE 0

\* Mutant: quotes and backslashes are written without escaping.
JsonEscape_none(c) == <<c>>

\* The JSON text of one character of a string.
JsonEscape(c) ==
  IF c = "\"" THEN <<"\\", "\"">>
  ELSE IF c = "\\" THEN <<"\\", "\\">>
  ELSE IF c = "\n" THEN <<"\\", "n">>
  ELSE IF c = "\t" THEN <<"\\", "t">>
  ELSE <<c>>

RECURSIVE jsonChars(_)
jsonChars(t) ==
  IF t = <<>> THEN <<>> ELSE JsonEscape(Head(t)) \o jsonChars(Tail(t))

\* JSON.stringify of a string
jsonString(t) == <<"\"">> \o jsonChars(t) \o <<"\"">>

RECURSIVE jsonItems(_)
jsonItems(items) ==
  IF items = <<>> THEN <<>>
  ELSE IF Len(items) = 1 THEN jsonString(Head(items))
  ELSE jsonString(Head(items)) \o <<",">> \o jsonItems(Tail(items))

\* JSON.stringify of an array of strings, or of undefined
jsonStringify(items) ==
  IF items = UndefinedItems THEN Undefined
  ELSE <<"[">> \o jsonItems(items) \o <<"]">>

\* Mutant: matchingPairs.some(...) instead of matchingPairs.every(...).
allMatched_some(pairs, m) ==
  \E k \in 1..Len(pairs) :
     /\ pairs[k].left \in DOMAIN m
     /\ m[pairs[k].left] = pairs[k].right

\* matchingPairs.every(pair => matchingState.matches[pair.left] === pair.right)
allMatched(pairs, m) ==
  \A k \in 1..Len(pairs) :
     /\ pairs[k].left \in DOMAIN m
     /\ m[pairs[k].left] = pairs[k].right

\* Object.keys(matchingState.matches).length === matchingPairs.length
allAssigned(pairs, m) == Cardinality(DOMAIN m) = Len(pairs)

\* The verdict of handleCheckAnswer.
grade(s, forcedByTimeout, flashcardCorrect) ==
  LET q == currentQuestion(s)
  IN IF isFlashcard(s) THEN flashcardCorrect
     ELSE IF forcedByTimeout THEN FALSE
     ELSE IF isShortAnswer(s) \/ isFillInBlank(s)
       THEN checkTextAnswer(s.textAnswer, q.correctAnswer)
     ELSE IF isOrdering(s)
       THEN jsonStringify(s.orderingState) = jsonStringify(q.orderingItems)
     ELSE IF isMatching(s)
       THEN IF q.matchingPairs = UndefinedPairs THEN FALSE
            ELSE /\ allMatched(q.matchingPairs, s.matchingState.matches)
                 /\ allAssigned(q.matchingPairs, s.matchingState.matches)
     ELSE isOptionMatch(IF s.selectedOption = Null THEN <<>> ELSE s.selectedOption,
                        q.correctAnswer)

\* if (settings?.enableExplainItBack && !correct && !forcedByTimeout && !isFlashcard)
opensExplain(s, correct, forcedByTimeout) ==
  enableExplainItBack /\ ~correct /\ ~forcedByTimeout /\ ~isFlashcard(s)

\* handleCheckAnswer, run in the render whose state is c; its updates are
\* applied to s.  e is the rounding of the health subtraction.
\* The state updates of handleCheckAnswer once the verdict is known.
applyVerdict(c, s, correct, forcedByTimeout, e) ==
  [s EXCEPT !.isCurrentCorrect = correct,
            !.score = IF correct THEN @ + 1 ELSE @,
            !.bossHealth = IF correct /\ isBossMode
                             THEN bossHit(@, Len(questions), e) ELSE @,
            !.playerHealth =
               IF ~correct /\ ~forcedByTimeout /\ ~isFlashcard(c) /\ isBossMode
                 THEN playerHit(@) ELSE @,
            !.isAnswerRevealed = TRUE,
            !.explainTimers = IF opensExplain(c, correct, forcedByTimeout)
                                THEN @ + 1 ELSE @]

handleCheckAnswer(c, s, forcedByTimeout, flashcardCorrect, e) ==
  applyVerdict(c, s, grade(c, forcedByTimeout, flashcardCorrect),
               forcedByTimeout, e)

\* Mutant: the cleanup leaves the interval running.
timerCleanup_leak(timers) == timers

\* The cleanup of the timer effect: clearInterval(timerRef.current).
timerCleanup(timers) == {}

\* Mutant: the countdown is armed on flashcards too.
timerArms_flashcard(c) ==
  timeLimit > 0 /\ ~c.isAnswerRevealed /\ c.timeLeft > 0

\* The first branch of the timer effect: the countdown is armed.
timerArms(c) ==
  timeLimit > 0 /\ ~c.isAnswerRevealed /\ c.timeLeft > 0 /\ ~isFlashcard(c)

\* Mutant: the expiry branch tests timeLeft < 0.
timerExpired_belowZero(c) ==
  c.timeLeft < 0 /\ ~c.isAnswerRevealed /\ timeLimit > 0 /\ ~isFlashcard(c)

\* The second branch of the timer effect: the countdown has run out.
timerExpired(c) ==
  c.timeLeft = 0 /\ ~c.isAnswerRevealed /\ timeLimit > 0 /\ ~isFlashcard(c)

\* Mutant: the expiry branch calls handleCheckAnswer() without the timeout flag.
timerEffect_unflagged(c, s) ==
  LET cleaned == [s EXCEPT !.timers = timerCleanup(@)]
  IN IF timerArms(c)
       THEN [cleaned EXCEPT !.timers = @ \cup {[idx |-> c.currentIndex]}]
     ELSE IF timerExpired(c)
       THEN handleCheckAnswer(c, [cleaned EXCEPT !.isTimeUp = TRUE], FALSE, FALSE, 0)
     ELSE cleaned

\* The timer effect (deps: timeLeft, isAnswerRevealed, timeLimit, isFlashcard),
\* run after the render whose state is c: the previous run's cleanup, then the
\* body; its state updates are applied to s.
timerEffect(c, s) ==
  LET cleaned == [s EXCEPT !.timers = timerCleanup(@)]
  IN IF timerArms(c)
       THEN [cleaned EXCEPT !.timers = @ \cup {[idx |-> c.currentIndex]}]
     ELSE IF timerExpired(c)
       THEN handleCheckAnswer(c, [cleaned EXCEPT !.isTimeUp = TRUE], TRUE, FALSE, 0)
     ELSE cleaned

timerDeps(s) == <<s.timeLeft, s.isAnswerRevealed, timeLimit, isFlashcard(s)>>

\* Renders and effect runs repeat until a render changes no dependency.
RECURSIVE settle(_, _)
settle(prev, cur) ==
  IF timerDeps(cur) = timerDeps(prev) THEN cur
  ELSE settle(cur, timerEffect(cur, cur))

\* The state once the update of state `old` to `new` is rendered and all
\* effects it triggers have run.
commit(old, new, ord, right) ==
  IF new.currentIndex # old.currentIndex
    THEN settle(new, IF timerDeps(new) # timerDeps(old)
                       THEN timerEffect(new, resetEffect(new, ord, right))
                       ELSE resetEffect(new, ord, right))
    ELSE settle(old, new)

\* Mount: every effect runs after the first render.
mount(ord, right) ==
  settle(InitialState,
         timerEffect(InitialState, resetEffect(InitialState, ord, right)))

\* Unmount: the cleanup of the timer effect runs.
unmount(s) == [s EXCEPT !.timers = timerCleanup(@)]


\* -------------------------------------------------------------- handlers
\* Mutant: the dragged item is inserted without being removed first.
moveItem_noRemove(order, from, to) ==
  [i \in 1..(Len(order) + 1) |->
     IF i < to + 1 THEN order[i]
     ELSE IF i = to + 1 THEN order[from + 1]
     ELSE order[i - 1]]

\* newOrder.splice(draggedIdx, 1); newOrder.splice(index, 0, item)
moveItem(order, from, to) ==
  LET item == order[from + 1]
      rest == [i \in 1..(Len(order) - 1) |->
                 IF i < from + 1 THEN order[i] ELSE order[i + 1]]
  IN [i \in 1..Len(order) |->
        IF i < to + 1 THEN rest[i]
        ELSE IF i = to + 1 THEN item
        ELSE rest[i - 1]]

handleDragStart(s, index) ==
  IF s.isAnswerRevealed THEN s ELSE [s EXCEPT !.draggedIdx = index]

\* Mutant: the drag-over handler lacks the isAnswerRevealed guard.
handleDragOver_unguarded(s, index) ==
  IF s.draggedIdx = NoDrag \/ s.draggedIdx = index THEN s
  ELSE [s EXCEPT !.orderingState = moveItem(@, s.draggedIdx, index),
                 !.draggedIdx = index]

handleDragOver(s, index) ==
  IF s.isAnswerRevealed THEN s
  ELSE IF s.draggedIdx = NoDrag \/ s.draggedIdx = index THEN s
  ELSE [s EXCEPT !.orderingState = moveItem(@, s.draggedIdx, index),
                 !.draggedIdx = index]

handleDragEnd(s) == [s EXCEPT !.draggedIdx = NoDrag]

\* `if (x)` on a string or a missing value: '' is falsy like undefined / null.
handleMatchClick(s, side, value) ==
  LET m == s.matchingState.matches
  IN IF s.isAnswerRevealed THEN s
     ELSE IF side = "left"
       THEN IF value \in DOMAIN m /\ m[value] # ""
              THEN [s EXCEPT !.matchingState.matches =
                                 [l \in DOMAIN m \ {value} |-> m[l]],
                             !.matchingState.selectedLeft = value]
              ELSE [s EXCEPT !.matchingState.selectedLeft = value]
     ELSE IF s.matchingState.selectedLeft \notin {NullLeft, ""}
       THEN LET sel == s.matchingState.selectedLeft
                holders == {l \in DOMAIN m : m[l] = value /\ l # ""}
                kept == IF holders = {} THEN DOMAIN m
                        ELSE DOMAIN m \ {CHOOSE l \in holders : TRUE}
            IN [s EXCEPT !.matchingState.matches =
                             [l \in kept \cup {sel} |->
                                IF l = sel THEN value ELSE m[l]],
                         !.matchingState.selectedLeft = NullLeft]
     ELSE s

\* onClick={() => !isAnswerRevealed && setSelectedOption(option)}
selectOption(s, option) ==
  IF s.isAnswerRevealed THEN s ELSE [s EXCEPT !.selectedOption = option]

\* The `disabled` expression of the Check Answer button.
checkDisabled(s) ==
  \/ isChoice(s) /\ s.selectedOption \in {Null, <<>>}
  \/ (isShortAnswer(s) \/ isFillInBlank(s)) /\ trim(s.textAnswer) = <<>>
  \/ isMatching(s) /\ DOMAIN s.matchingState.matches = {}

\* Mutant: the check buttons stay on screen after the answer is revealed.
showsCheck_always(s) == TRUE

\* The bottom bar shows the check / flashcard buttons until the answer is
\* revealed, and the Next button afterwards.
showsCheck(s) == ~s.isAnswerRevealed
showsNext(s) == s.isAnswerRevealed

\* Mutant: the last-question test is off by one.
finishes_early(s) ==
  \/ isBossMode /\ s.playerHealth <= 0
  \/ ~(s.currentIndex < Len(questions) - 2)

\* Mutant: the game-over check of boss mode is missing.
finishes_noDefeat(s) == ~(s.currentIndex < Len(questions) - 1)

\* handleNext: does this advance end the session?
finishes(s) ==
  \/ isBossMode /\ s.playerHealth <= 0
  \/ ~(s.currentIndex < Len(questions) - 1)

\* Mutant: the result counts the questions reached instead of the list.
quizResult_index(s) ==
  [score |-> s.score,
   totalQuestions |-> s.currentIndex,
   correctAnswers |-> s.score,
   xpEarned |-> s.score * 10]

\* The QuizResult handleNext passes to onFinish (timeTaken left out).
quizResult(s) ==
  LET xp == s.score * 10
  IN [score |-> s.score,
      totalQuestions |-> Len(questions),
      correctAnswers |-> s.score,
      xpEarned |->
        IF isBossMode /\ s.playerHealth <= 0 THEN s.score * 5
        ELSE IF isBossMode /\ s.bossHealth <= 0 THEN xp + 100
        ELSE IF isBossMode /\ s.bossHealth > 0 THEN xp \div 2
        ELSE xp]

\* The main quiz view is on screen (not replaced by the Explain It Back modal).
MainView ==
  /\ appState = "QUIZ"
  /\ qv.currentIndex < Len(questions)
  /\ ~qv.showExplainModal


\* -------------------------------------------------------------- App state
\* user === null
NoUser == "\\null"

\* The registered accounts.
Users == {"u1"}

\* error === null, and the messages the handlers set
NoError == "\\null"
GenerateFailed == "Failed to generate quiz. Please check your connection."
SummaryFailed == "Failed to generate summary. Please check your connection."

\* The initial settings.allowedTypes of InputView.
DefaultTypes ==
  <<"MULTIPLE_CHOICE", "TRUE_FALSE", "SHORT_ANSWER", "MATCHING", "ORDERING",
    "FILL_IN_THE_BLANK", "FLASHCARD">>

\* App after its init effect, getCurrentUser() having returned u: the user
\* and the error, the stored history of each account, the generate and
\* summarize calls in flight, and the type filter of InputView.  started and
\* finishCalls are history: the requests and retries so far, and the onFinish
\* calls of the latest QuizView.
AppInitial(u) ==
  [user |-> u,
   error |-> NoError,
   history |-> [x \in Users |-> <<>>],
   generating |-> 0,
   summarizing |-> 0,
   allowedTypes |-> DefaultTypes,
   started |-> 0,
   finishCalls |-> 0]

\* Mutant: history.push(item) instead of history.unshift(item).
saveQuizHistory_push(history, userId, item) ==
  [history EXCEPT ![userId] = Append(@, item)]

\* saveQuizHistory: history.unshift(item)
saveQuizHistory(history, userId, item) ==
  [history EXCEPT ![userId] = <<item>> \o @]

\* handleQuizFinish, but for setLastResult and setAppState: the history item
\* is saved when a user is logged in (activeSettings is set by every
\* handleGenerate).
handleQuizFinish(a, result) ==
  [a EXCEPT !.history = IF a.user # NoUser
                          THEN saveQuizHistory(@, a.user, result) ELSE @,
            !.finishCalls = @ + 1]

\* ------------------------------------------------------------ the session
TimeLimits == {0, MaxTime}

\* handleGenerate succeeded: App shows a freshly mounted QuizView.
Init ==
  /\ questions \in QuestionLists
  /\ timeLimit \in TimeLimits
  /\ isBossMode \in BOOLEAN
  /\ enableExplainItBack \in BOOLEAN
  /\ appState = "QUIZ"
  /\ app = AppInitial("u1")
  /\ lastResult = NoResult
  /\ \E ord \in OrderShuffles(0), right \in RightShuffles(0) :
        qv = mount(ord, right)
  /\ verdicts = [correct |-> 0, incorrect |-> 0]
  /\ lastOp = "mount"

props == <<questions, timeLimit, isBossMode, enableExplainItBack>>

\* setIsCurrentCorrect(correct) of one more submit, added to the history.
recorded(v, correct) ==
  IF correct THEN [v EXCEPT !.correct = @ + 1] ELSE [v EXCEPT !.incorrect = @ + 1]

\* A state update of the mounted view that keeps the question index.
Update(new, op) ==
  /\ qv' = commit(qv, new, <<>>, <<>>)
  /\ lastOp' = op
  /\ UNCHANGED <<app, props, appState, lastResult, verdicts>>

SelectOption ==
  /\ MainView /\ isChoice(qv)
  /\ \E i \in 1..Len(currentQuestion(qv).options) :
        Update(selectOption(qv, currentQuestion(qv).options[i]), "select")

\* onChange of the text area, which is disabled once the answer is revealed
TypeText ==
  /\ MainView /\ (isShortAnswer(qv) \/ isFillInBlank(qv))
  /\ ~qv.isAnswerRevealed
  /\ \E t \in TextInputs : Update([qv EXCEPT !.textAnswer = t], "type")

FlipCard ==
  /\ MainView /\ isFlashcard(qv)
  /\ Update([qv EXCEPT !.isCardFlipped = ~@], "flip")

DragStart ==
  /\ MainView /\ isOrdering(qv)
  /\ \E i \in 0..(Len(qv.orderingState) - 1) :
        Update(handleDragStart(qv, i), "dragStart")

DragOver ==
  /\ MainView /\ isOrdering(qv)
  /\ \E i \in 0..(Len(qv.orderingState) - 1) :
        Update(handleDragOver(qv, i), "dragOver")

DragEnd ==
  /\ MainView /\ isOrdering(qv)
  /\ Update(handleDragEnd(qv), "dragEnd")

\* The matching columns are rendered only when matchingPairs is present.
MatchLeft ==
  /\ MainView /\ isMatching(qv)
  /\ currentQuestion(qv).matchingPairs # UndefinedPairs
  /\ \E k \in 1..Len(currentQuestion(qv).matchingPairs) :
        Update(handleMatchClick(qv, "left", currentQuestion(qv).matchingPairs[k].left),
               "matchLeft")

MatchRight ==
  /\ MainView /\ isMatching(qv)
  /\ currentQuestion(qv).matchingPairs # UndefinedPairs
  /\ \E k \in 1..Len(qv.matchingState.shuffledRight) :
        Update(handleMatchClick(qv, "right", qv.matchingState.shuffledRight[k]),
               "matchRight")

\* Check Answer / Attack Boss button
CheckAnswer ==
  /\ MainView /\ showsCheck(qv) /\ ~isFlashcard(qv) /\ ~checkDisabled(qv)
  /\ \E e \in RoundErr(Len(questions)) :
        qv' = commit(qv, handleCheckAnswer(qv, qv, FALSE, FALSE, e), <<>>, <<>>)
  /\ verdicts' = recorded(verdicts, qv'.isCurrentCorrect)
  /\ lastOp' = "check"
  /\ UNCHANGED <<app, props, appState, lastResult>>

\* Review / Got it buttons, clickable once the card is flipped
FlashcardAnswer ==
  /\ MainView /\ showsCheck(qv) /\ isFlashcard(qv) /\ qv.isCardFlipped
  /\ \E got \in BOOLEAN, e \in RoundErr(Len(questions)) :
        /\ qv' = commit(qv, handleCheckAnswer(qv, qv, FALSE, got, e), <<>>, <<>>)
        /\ lastOp' = IF got THEN "gotIt" ELSE "review"
  /\ verdicts' = recorded(verdicts, qv'.isCurrentCorrect)
  /\ UNCHANGED <<app, props, appState, lastResult>>

\* An armed interval fires: setTimeLeft(prev => prev - 1); the timer effect
\* of the following render re-arms the countdown or forces the submission.
Tick ==
  /\ \E h \in qv.timers :
        qv' = IF appState = "QUIZ"
                THEN commit(qv, [qv EXCEPT !.timeLeft = @ - 1], <<>>, <<>>)
                ELSE qv
  /\ LET forced == qv'.isTimeUp /\ ~qv.isTimeUp
     IN /\ verdicts' = IF forced THEN recorded(verdicts, qv'.isCurrentCorrect)
                       ELSE verdicts
        /\ lastOp' = IF forced THEN "timeout" ELSE "tick"
  /\ UNCHANGED <<app, props, appState, lastResult>>

\* Next button, not on the last question and not defeated
Advance ==
  /\ MainView /\ showsNext(qv) /\ ~finishes(qv)
  /\ \E ord \in OrderShuffles(qv.currentIndex + 1),
        right \in RightShuffles(qv.currentIndex + 1) :
        qv' = commit(qv, [qv EXCEPT !.currentIndex = @ + 1], ord, right)
  /\ lastOp' = "next"
  /\ UNCHANGED <<app, props, appState, lastResult, verdicts>>

\* Next / Finish Quiz button ending the session: onFinish = handleQuizFinish
Finish ==
  /\ MainView /\ showsNext(qv) /\ finishes(qv)
  /\ lastResult' = quizResult(qv)
  /\ app' = handleQuizFinish(app, quizResult(qv))
  /\ appState' = "RESULTS"
  /\ qv' = unmount(qv)
  /\ lastOp' = "finish"
  /\ UNCHANGED <<props, verdicts>>

\* Exit button: onExit = handleNew
Exit ==
  /\ MainView
  /\ questions' = <<>>
  /\ lastResult' = NoResult
  /\ appState' = "INPUT"
  /\ qv' = unmount(qv)
  /\ lastOp' = "exit"
  /\ UNCHANGED <<app, timeLimit, isBossMode, enableExplainItBack, verdicts>>

\* setTimeout(() => setShowExplainModal(true), 1500) comes due
ExplainTimer ==
  /\ qv.explainTimers > 0
  /\ qv' = IF appState = "QUIZ"
             THEN commit(qv, [qv EXCEPT !.explainTimers = @ - 1,
                                        !.showExplainModal = TRUE], <<>>, <<>>)
             ELSE [qv EXCEPT !.explainTimers = @ - 1]
  /\ lastOp' = "explainTimer"
  /\ UNCHANGED <<app, props, appState, lastResult, verdicts>>

\* "Skip for now" in the Explain It Back modal, shown while there is no
\* feedback
SkipExplain ==
  /\ appState = "QUIZ" /\ qv.showExplainModal
  /\ qv.explanationFeedback = NoFeedback
  /\ Update([qv EXCEPT !.showExplainModal = FALSE], "skipExplain")

Next ==
  \/ SelectOption \/ TypeText \/ FlipCard
  \/ DragStart \/ DragOver \/ DragEnd
  \/ MatchLeft \/ MatchRight
  \/ CheckAnswer \/ FlashcardAnswer
  \/ Tick \/ Advance \/ Finish \/ Exit
  \/ ExplainTimer \/ SkipExplain

Spec == Init /\ [][Next]_vars

\* ------------------------------------------------------ Explain It Back
\* Validation calls in flight at once.
MaxValidations == 2

\* What the user may type as an explanation.
ExplanationInputs == { <<"w","h","y">>, <<" ">> }

\* The explanation-validation collaborator: it returns a correctness
\* boolean and a feedback text, or fails.
validateExplanation ==
  {[ok |-> TRUE, isCorrect |-> TRUE], [ok |-> TRUE, isCorrect |-> FALSE],
   [ok |-> FALSE, isCorrect |-> FALSE]}

\* submitExplanation up to its await
submitExplanation(s) ==
  [s EXCEPT !.isCheckingExplanation = TRUE,
            !.validations = Append(@, s.currentIndex)]

\* Mutant: setIsCheckingExplanation(false) follows the await inside the try
\* instead of standing in a finally.
explanationSettled_noFinally(s, r) ==
  [s EXCEPT !.explanationFeedback =
               IF r.ok THEN [isCorrect |-> r.isCorrect, feedback |-> "feedback"]
               ELSE CouldNotVerify,
            !.isCheckingExplanation = IF r.ok THEN FALSE ELSE @]

\* submitExplanation after its await: the try, the catch and the finally
explanationSettled(s, r) ==
  [s EXCEPT !.explanationFeedback =
               IF r.ok THEN [isCorrect |-> r.isCorrect, feedback |-> "feedback"]
               ELSE CouldNotVerify,
            !.isCheckingExplanation = FALSE]

\* onChange of the modal's text area
TypeExplanation ==
  /\ appState = "QUIZ" /\ qv.showExplainModal
  /\ qv.explanationFeedback = NoFeedback
  /\ \E t \in ExplanationInputs :
        Update([qv EXCEPT !.userExplanation = t], "typeExplanation")

\* Check Understanding button, disabled on a blank explanation
SubmitExplanation ==
  /\ appState = "QUIZ" /\ qv.showExplainModal
  /\ qv.explanationFeedback = NoFeedback
  /\ trim(qv.userExplanation) # <<>>
  /\ Len(qv.validations) < MaxValidations
  /\ Update(submitExplanation(qv), "submitExplanation")

\* The sequence without its k-th element.
removeAt(seq, k) == SubSeq(seq, 1, k - 1) \o SubSeq(seq, k + 1, Len(seq))

\* One of the validation calls in flight returns or fails; the updates of an
\* unmounted view are dropped.  explainedIndex records the question the
\* settled call was made for.
ValidationSettles ==
  /\ \E k \in 1..Len(qv.validations), r \in validateExplanation :
        /\ qv' = IF appState = "QUIZ"
                   THEN commit(qv,
                               explanationSettled(
                                 [qv EXCEPT !.validations = removeAt(@, k),
                                            !.explainedIndex = qv.validations[k]],
                                 r),
                               <<>>, <<>>)
                   ELSE [qv EXCEPT !.validations = removeAt(@, k)]
        /\ lastOp' = IF r.ok THEN "validated" ELSE "validationFailed"
  /\ UNCHANGED <<app, props, appState, lastResult, verdicts>>

\* Continue button of the modal, shown with the feedback
ContinueExplain ==
  /\ appState = "QUIZ" /\ qv.showExplainModal
  /\ qv.explanationFeedback # NoFeedback
  /\ Update([qv EXCEPT !.showExplainModal = FALSE], "continueExplain")

\* Sessions of choice and short-answer questions with Explain It Back on.
InitExplain ==
  /\ questions \in {<<a>> : a \in {QChoice, QShort}}
                    \cup {<<a, b>> : a \in {QChoice, QShort}, b \in {QChoice, QShort}}
  /\ timeLimit \in TimeLimits
  /\ isBossMode \in BOOLEAN
  /\ enableExplainItBack = TRUE
  /\ appState = "QUIZ"
  /\ app = AppInitial("u1")
  /\ lastResult = NoResult
  /\ qv = mount(<<>>, <<>>)
  /\ verdicts = [correct |-> 0, incorrect |-> 0]
  /\ lastOp = "mount"

NextExplain ==
  \/ SelectOption \/ TypeText \/ CheckAnswer \/ Tick
  \/ Advance \/ Finish \/ Exit
  \/ ExplainTimer \/ SkipExplain
  \/ TypeExplanation \/ SubmitExplanation \/ ValidationSettles
  \/ ContinueExplain

SpecExplain == InitExplain /\ [][NextExplain]_vars

\* ------------------------------------------------- boss battles, 1..20
\* The Question Count slider: min="1" max="20".
MaxBossQ == 20

\* A boss battle over n choice questions, n over the whole slider range,
\* without time limit.
InitBoss ==
  /\ \E n \in 1..MaxBossQ : questions = [i \in 1..n |-> QChoice]
  /\ timeLimit = 0
  /\ isBossMode = TRUE
  /\ enableExplainItBack = FALSE
  /\ appState = "QUIZ"
  /\ app = AppInitial("u1")
  /\ lastResult = NoResult
  /\ qv = mount(<<>>, <<>>)
  /\ verdicts = [correct |-> 0, incorrect |-> 0]
  /\ lastOp = "mount"

NextBoss == SelectOption \/ CheckAnswer \/ Advance \/ Finish

SpecBoss == InitBoss /\ [][NextBoss]_vars


\* ------------------------------------------- matching questions, 4 pairs
\* A matching question as the generator is asked to produce it: 4 pairs.
QMatching4 ==
  Question("MATCHING", <<>>, <<>>, UndefinedItems,
           <<[left |-> "L1", right |-> "R1"], [left |-> "L2", right |-> "R2"],
             [left |-> "L3", right |-> "R3"], [left |-> "L4", right |-> "R4"]>>)

\* A matching question one of whose left texts and one of whose right texts
\* is the empty string (matchingPairs is { left: string; right: string }[]).
QMatchingBlank ==
  Question("MATCHING", <<>>, <<>>, UndefinedItems,
           <<[left |-> "", right |-> "R1"], [left |-> "L2", right |-> ""]>>)

\* A session of one matching question, without time limit.
InitMatching ==
  /\ questions \in {<<QMatching4>>, <<QMatchingBlank>>}
  /\ timeLimit = 0
  /\ isBossMode = FALSE
  /\ enableExplainItBack = FALSE
  /\ appState = "QUIZ"
  /\ app = AppInitial("u1")
  /\ lastResult = NoResult
  /\ \E right \in RightShuffles(0) : qv = mount(<<>>, right)
  /\ verdicts = [correct |-> 0, incorrect |-> 0]
  /\ lastOp = "mount"

NextMatching == MatchLeft \/ MatchRight \/ CheckAnswer \/ Finish

SpecMatching == InitMatching /\ [][NextMatching]_vars


\* ---------------------------------------------------- ordering questions
QOrdering4 ==
  Question("ORDERING", <<>>, <<>>, << <<"A">>, <<"B">>, <<"C">>, <<"D">> >>,
           UndefinedPairs)
\* Two items with the same text.
QOrderingDup ==
  Question("ORDERING", <<>>, <<>>, << <<"A">>, <<"A">>, <<"B">> >>, UndefinedPairs)
\* Items holding quotes and commas: a, a","a and b.
QOrderingQuoted ==
  Question("ORDERING", <<>>, <<>>,
           << <<"a">>, <<"a", "\"", ",", "\"", "a">>, <<"b">> >>, UndefinedPairs)

OrderingLists ==
  {<<q>> : q \in {QOrdering, QOrdering4, QOrderingDup, QOrderingQuoted}}
    \cup {<<QOrderingDup, QOrdering>>, <<QOrdering, QOrderingNoItems>>}

\* A session of ordering questions, without time limit.
InitOrdering ==
  /\ questions \in OrderingLists
  /\ timeLimit = 0
  /\ isBossMode = FALSE
  /\ enableExplainItBack = FALSE
  /\ appState = "QUIZ"
  /\ app = AppInitial("u1")
  /\ lastResult = NoResult
  /\ \E ord \in OrderShuffles(0) : qv = mount(ord, <<>>)
  /\ verdicts = [correct |-> 0, incorrect |-> 0]
  /\ lastOp = "mount"

NextOrdering ==
  DragStart \/ DragOver \/ DragEnd \/ CheckAnswer \/ Advance \/ Finish

SpecOrdering == InitOrdering /\ [][NextOrdering]_vars

\* The up / down buttons of the earlier revision of the view:
\* moveItem(index, direction) swaps the item with its neighbour.
moveItemUpDown(order, index, direction) ==
  IF direction = "up" /\ index > 0
    THEN [order EXCEPT ![index + 1] = order[index], ![index] = order[index + 1]]
  ELSE IF direction = "down" /\ index < Len(order) - 1
    THEN [order EXCEPT ![index + 1] = order[index + 2], ![index + 2] = order[index + 1]]
  ELSE order


\* ------------------------------------------------- grading sessions
\* Every text of at most n characters over the given characters.
Texts(chars, n) == UNION {[1..k -> chars] : k \in 0..n}

\* Option texts: every text of letters, full stops and spaces.
OptionTexts == Texts({"a", ".", " "}, MaxOptLen)

\* List markers: a short alphanumeric token, a separator, a space.
Markers == { <<"A", ".", " ">>, <<"1", ")", " ">>, <<"b", ":", " ">>,
             <<"2", "-", " ", " ">> }

\* Texts whose leading token and separator are not followed by a space.
Decimals == { <<"3", ".", "1", "4">>, <<"1", ".", "5">>, <<"a", ".", "b">> }

\* The texts that are given a list marker: short texts holding a letter,
\* and the decimals.
MarkedTexts ==
  {t \in Texts({"a", ".", " "}, 4) : \E i \in 1..Len(t) : t[i] = "a"}
    \cup Decimals

\* A choice question with the single option opt.
ChoiceOf(type, opt, correctAnswer) ==
  Question(type, <<opt>>, correctAnswer, UndefinedItems, UndefinedPairs)

TextOf(type, correctAnswer) ==
  Question(type, <<>>, correctAnswer, UndefinedItems, UndefinedPairs)

GradeQuestions ==
  {ChoiceOf("MULTIPLE_CHOICE", opt, ans) :
      opt \in OptionTexts, ans \in {Undefined, <<"a">>}}
    \cup {ChoiceOf("TRUE_FALSE", opt, ans) :
            opt \in { <<"T","r","u","e">>, <<".">> }, ans \in {Undefined, <<>>}}
    \cup {ChoiceOf("MULTIPLE_CHOICE", m \o t, t) :
            m \in Markers, t \in MarkedTexts}
    \cup {ChoiceOf("MULTIPLE_CHOICE", d, d) : d \in Decimals}
    \cup {TextOf(type, ans) :
            type \in {"SHORT_ANSWER", "FILL_IN_THE_BLANK"},
            ans \in {Undefined, <<>>, <<"o","k">>, <<"c","o","l","o","u","r">>}}

\* What the user may type in a grading session.
GradeInputs ==
  { <<"o","k">>, <<"O","K","!">>, <<"c","o","l","o","r">>,
    <<"c","o","l","o","u","r","s">>, <<"x","y","z","z","y">>, <<" ">> }

\* A session of one question graded against correctAnswer.
InitGrade ==
  /\ questions \in {<<q>> : q \in GradeQuestions}
  /\ timeLimit = 0
  /\ isBossMode = FALSE
  /\ enableExplainItBack = FALSE
  /\ appState = "QUIZ"
  /\ app = AppInitial("u1")
  /\ lastResult = NoResult
  /\ qv = mount(<<>>, <<>>)
  /\ verdicts = [correct |-> 0, incorrect |-> 0]
  /\ lastOp = "mount"

\* onChange of the text area, over the inputs of the grading sessions
TypeAnswer ==
  /\ MainView /\ (isShortAnswer(qv) \/ isFillInBlank(qv))
  /\ ~qv.isAnswerRevealed
  /\ \E t \in GradeInputs : Update([qv EXCEPT !.textAnswer = t], "type")

NextGrade == SelectOption \/ TypeAnswer \/ CheckAnswer \/ Finish

SpecGrade == InitGrade /\ [][NextGrade]_vars

\* The edit distance table of the earlier revision's checkShortAnswer.
levenshtein(c, u) ==
  LET track[i \in 0..Len(c), j \in 0..Len(u)] ==
        IF j = 0 THEN i
        ELSE IF i = 0 THEN j
        ELSE SetMin({track[i, j - 1] + 1,
                     track[i - 1, j] + 1,
                     track[i - 1, j - 1] + (IF c[i] = u[j] THEN 0 ELSE 1)})
  IN track[Len(c), Len(u)]

\* checkShortAnswer of the earlier revision (correctAnswer is a string
\* there), on the two normalized texts;
\* distance <= Math.max(2, Math.max(u.length, c.length) * 0.3), in tenths.
shortAnswerMatches(u, c) ==
  IF u = <<>> THEN FALSE
  ELSE \/ u = c
       \/ (Len(c) > 3 /\ includes(u, c))
       \/ (Len(u) > 3 /\ includes(c, u))
       \/ 10 * levenshtein(c, u) <= SetMax({20, 3 * SetMax({Len(u), Len(c)})})

checkShortAnswer(userAnswer, correctAnswer) ==
  shortAnswerMatches(normalizeText(userAnswer), normalizeText(correctAnswer))


\* ------------------------------------------------------ the application
\* Generate, summarize and retry requests of one run.
MaxSessions == 2

\* The question lists generateQuizFromContent resolves to.
GeneratedLists == {<<QChoice>>, <<QChoice, QChoice>>}

\* App after its init effect: AUTH without a stored user, INPUT with one.
InitApp ==
  /\ questions = <<>>
  /\ timeLimit = 0
  /\ isBossMode = FALSE
  /\ enableExplainItBack = FALSE
  /\ \E u \in Users \cup {NoUser} :
        /\ app = AppInitial(u)
        /\ appState = IF u = NoUser THEN "AUTH" ELSE "INPUT"
  /\ lastResult = NoResult
  /\ qv = InitialState
  /\ verdicts = [correct |-> 0, incorrect |-> 0]
  /\ lastOp = "init"

\* The header with the profile dropdown: appState !== AUTH && user
headerShown == appState # "AUTH" /\ app.user # NoUser

\* InputView is rendered and not covered by the loading overlay.
inputShown == appState = "INPUT" /\ app.user # NoUser

\* The QuizView state left behind when App renders another view.
leaveQuiz(s) == IF appState = "QUIZ" THEN unmount(s) ELSE s

\* A QuizView that stays mounted while its questions prop is replaced:
\* the reset effect runs unless the current question is undefined before and
\* after, then the timer effect if one of its dependencies changed.
questionsReplaced(s, wasDefined, oldDeps, ord, right) ==
  IF ~wasDefined /\ ~(s.currentIndex < Len(questions)) THEN s
  ELSE settle(s, IF timerDeps(s) # oldDeps
                   THEN timerEffect(s, resetEffect(s, ord, right))
                   ELSE resetEffect(s, ord, right))

\* Mutant: Try Again shows the earlier QuizView again instead of a new one.
handleRetry_hidden(s, ord, right) == timerEffect(s, s)

\* handleRetry: setAppState(QUIZ) mounts a new QuizView over the same
\* questions; the state s of the one unmounted at the finish is gone.
handleRetry(s, ord, right) == mount(ord, right)

\* handleLogin succeeds
Login ==
  /\ appState = "AUTH"
  /\ \E u \in Users : app' = [app EXCEPT !.user = u, !.error = NoError]
  /\ appState' = "INPUT"
  /\ lastOp' = "login"
  /\ UNCHANGED <<props, lastResult, qv, verdicts>>

\* handleLogout, from the profile dropdown
Logout ==
  /\ headerShown
  /\ app' = [app EXCEPT !.user = NoUser]
  /\ appState' = "AUTH"
  /\ qv' = leaveQuiz(qv)
  /\ lastOp' = "logout"
  /\ UNCHANGED <<props, lastResult, verdicts>>

\* handleOpenHistory, from the profile dropdown
OpenHistory ==
  /\ headerShown
  /\ appState' = "HISTORY"
  /\ qv' = leaveQuiz(qv)
  /\ lastOp' = "openHistory"
  /\ UNCHANGED <<app, props, lastResult, verdicts>>

\* handleBackFromHistory
BackFromHistory ==
  /\ appState = "HISTORY"
  /\ appState' = "INPUT"
  /\ lastOp' = "backFromHistory"
  /\ UNCHANGED <<app, props, lastResult, qv, verdicts>>

\* handleGenerate up to its await
Generate ==
  /\ inputShown
  /\ app.started < MaxSessions
  /\ appState' = "LOADING"
  /\ app' = [app EXCEPT !.error = NoError, !.generating = @ + 1,
                        !.started = @ + 1]
  /\ timeLimit' \in TimeLimits
  /\ isBossMode' \in BOOLEAN
  /\ enableExplainItBack' = FALSE
  /\ lastOp' = "generate"
  /\ UNCHANGED <<questions, lastResult, qv, verdicts>>

\* handleGenerate after its await, generateQuizFromContent having resolved
GenerateSucceeds ==
  /\ app.generating > 0
  /\ questions' \in GeneratedLists
  /\ appState' = "QUIZ"
  /\ UNCHANGED <<timeLimit, isBossMode, enableExplainItBack, lastResult>>
  /\ IF appState = "QUIZ"
       THEN /\ \E s \in {qv}, d \in {timerDeps(qv)},
                  w \in {qv.currentIndex < Len(questions)} :
                  qv' = questionsReplaced(s, w, d, <<>>, <<>>)'
            /\ app' = [app EXCEPT !.generating = @ - 1]
            /\ UNCHANGED verdicts
       ELSE /\ qv' = mount(<<>>, <<>>)'
            /\ app' = [app EXCEPT !.generating = @ - 1, !.finishCalls = 0]
            /\ verdicts' = [correct |-> 0, incorrect |-> 0]
  /\ lastOp' = "generated"

\* handleGenerate after its await, in the catch: the call rejected, found
\* no response text or could not parse it
GenerateFails ==
  /\ app.generating > 0
  /\ app' = [app EXCEPT !.generating = @ - 1, !.error = GenerateFailed]
  /\ appState' = "INPUT"
  /\ qv' = leaveQuiz(qv)
  /\ lastOp' = "generateFailed"
  /\ UNCHANGED <<props, lastResult, verdicts>>

\* handleSummarize up to its await
Summarize ==
  /\ inputShown
  /\ app.started < MaxSessions
  /\ appState' = "LOADING"
  /\ app' = [app EXCEPT !.error = NoError, !.summarizing = @ + 1,
                        !.started = @ + 1]
  /\ lastOp' = "summarize"
  /\ UNCHANGED <<props, lastResult, qv, verdicts>>

\* handleSummarize after its await, generateSummary having resolved
SummarizeSucceeds ==
  /\ app.summarizing > 0
  /\ app' = [app EXCEPT !.summarizing = @ - 1]
  /\ appState' = "SUMMARY"
  /\ qv' = leaveQuiz(qv)
  /\ lastOp' = "summarized"
  /\ UNCHANGED <<props, lastResult, verdicts>>

\* handleSummarize after its await, in the catch
SummarizeFails ==
  /\ app.summarizing > 0
  /\ app' = [app EXCEPT !.summarizing = @ - 1, !.error = SummaryFailed]
  /\ appState' = "INPUT"
  /\ qv' = leaveQuiz(qv)
  /\ lastOp' = "summarizeFailed"
  /\ UNCHANGED <<props, lastResult, verdicts>>

\* Try Again of ResultView: onRetry = handleRetry
Retry ==
  /\ appState = "RESULTS" /\ lastResult # NoResult
  /\ app.started < MaxSessions
  /\ appState' = "QUIZ"
  /\ app' = [app EXCEPT !.started = @ + 1, !.finishCalls = 0]
  /\ qv' = handleRetry(qv, <<>>, <<>>)
  /\ verdicts' = [correct |-> 0, incorrect |-> 0]
  /\ lastOp' = "retry"
  /\ UNCHANGED <<props, lastResult>>

\* New Quiz of ResultView and Back of SummaryView: handleNew
New ==
  /\ \/ appState = "RESULTS" /\ lastResult # NoResult
     \/ appState = "SUMMARY"
  /\ questions' = <<>>
  /\ lastResult' = NoResult
  /\ appState' = "INPUT"
  /\ lastOp' = "new"
  /\ UNCHANGED <<app, timeLimit, isBossMode, enableExplainItBack, qv, verdicts>>

NextApp ==
  \/ Login \/ Logout
  \/ OpenHistory \/ BackFromHistory
  \/ Generate \/ GenerateSucceeds \/ GenerateFails
  \/ Summarize \/ SummarizeSucceeds \/ SummarizeFails
  \/ SelectOption \/ CheckAnswer \/ Tick \/ Advance \/ Finish \/ Exit
  \/ Retry \/ New

SpecApp == InitApp /\ [][NextApp]_vars

\* ------------------------------------------------- the type filter
\* Mutant: the last type can be removed too.
toggleType_noGuard(current, type) ==
  IF \E i \in 1..Len(current) : current[i] = type
    THEN SelectSeq(current, LAMBDA t : t # type)
    ELSE Append(current, type)

\* toggleType of SettingsModal: the next settings.allowedTypes
toggleType(current, type) ==
  IF \E i \in 1..Len(current) : current[i] = type
    THEN IF Len(current) > 1 THEN SelectSeq(current, LAMBDA t : t # type)
         ELSE current
    ELSE Append(current, type)

\* A click on one of the question-type buttons of the settings modal
ToggleType ==
  /\ inputShown
  /\ \E type \in QuestionType :
        app' = [app EXCEPT !.allowedTypes = toggleType(@, type)]
  /\ lastOp' = "toggleType"
  /\ UNCHANGED <<props, appState, lastResult, qv, verdicts>>

\* InputView with its settings modal open.
SpecSettings == InitApp /\ [][ToggleType]_vars

\* ================================================================ claims
Mounted == appState = "QUIZ"
NumVerdicts == verdicts.correct + verdicts.incorrect
IsTick == lastOp' \in {"tick", "timeout"}

\* C1: a countdown tick or a timeout-forced submission takes effect only on
\* a mounted view whose current question is not yet revealed and whose every
\* running interval was armed for the current question index; no interval is
\* left running once the answer is revealed, the index has changed or the
\* view is unmounted; and a forced submission happens only when a tick takes
\* the current question's own remaining time from 1 to 0.
C1_TimerNeverStale ==
  /\ [](\A h \in qv.timers :
          Mounted /\ ~qv.isAnswerRevealed /\ h.idx = qv.currentIndex)
  /\ [][IsTick => /\ Mounted /\ ~qv.isAnswerRevealed
                  /\ \A h \in qv.timers : h.idx = qv.currentIndex
                  /\ qv'.currentIndex = qv.currentIndex
                  /\ qv'.timeLeft = qv.timeLeft - 1]_vars
  /\ [][(qv'.isTimeUp /\ ~qv.isTimeUp) =>
          lastOp' = "timeout" /\ qv.timeLeft = 1 /\ qv'.timeLeft = 0]_vars

\* The first question was answered early and correctly while its countdown
\* ran, the index changed, and the second question then ran out of time.
C1_Witness ==
  /\ Mounted /\ lastOp = "timeout" /\ qv.currentIndex = 1
  /\ verdicts.correct = 1 /\ questions[1].type # "FLASHCARD"

\* C2: a submission forced by the countdown records an incorrect verdict and
\* leaves the score unchanged, whatever the working state.
C2_TimeoutIsIncorrect ==
  [][lastOp' = "timeout" =>
       /\ qv'.isAnswerRevealed /\ ~qv'.isCurrentCorrect
       /\ qv'.score = qv.score
       /\ verdicts' = recorded(verdicts, FALSE)]_vars

\* A timeout hit a working state that a user-initiated submit grades correct.
C2_Witness ==
  /\ Mounted /\ lastOp = "timeout" /\ ~qv.isCurrentCorrect
  /\ grade(qv, FALSE, FALSE)

\* C3: when every question of the list was submitted or timed out and the
\* session finished, the result has totalQuestions = N and
\* score = correctAnswers = the number of correct verdicts recorded.
C3_ResultCountsCorrect ==
  (appState = "RESULTS" /\ NumVerdicts = Len(questions)) =>
     /\ lastResult.totalQuestions = Len(questions)
     /\ lastResult.score = verdicts.correct
     /\ lastResult.correctAnswers = verdicts.correct

\* Five questions, four answered correctly and one incorrectly.
C3_Witness ==
  /\ appState = "RESULTS" /\ Len(questions) = 5
  /\ verdicts.correct = 4 /\ verdicts.incorrect = 1
  /\ lastResult.correctAnswers = 4 /\ lastResult.totalQuestions = 5

\* C4: once a question is revealed, its verdict and the score stay as they
\* are until the index changes and no further verdict is recorded for it;
\* the score never exceeds the number of questions revealed so far, which
\* never exceeds the number of questions.
C4_GradedOnce ==
  /\ [][(Mounted /\ qv.isAnswerRevealed /\ appState' = "QUIZ"
           /\ qv'.currentIndex = qv.currentIndex) =>
          /\ qv'.isAnswerRevealed
          /\ qv'.isCurrentCorrect = qv.isCurrentCorrect
          /\ qv'.score = qv.score
          /\ verdicts' = verdicts]_vars
  /\ [](Mounted =>
          /\ qv.score <= NumVerdicts
          /\ NumVerdicts = qv.currentIndex + (IF qv.isAnswerRevealed THEN 1 ELSE 0)
          /\ NumVerdicts <= Len(questions))

\* A correct answer is on screen and the user clicked an option again.
C4_Witness ==
  /\ Mounted /\ qv.isAnswerRevealed /\ qv.isCurrentCorrect
  /\ lastOp = "select" /\ qv.score = 2

\* C5: while the answer is revealed, tapping a matching item, dragging an
\* ordering item and selecting an option change neither the matching
\* assignment and selected-left, the ordering sequence, the selected option,
\* the verdict nor the score.
C5_RevealedIsLocked ==
  [][(qv.isAnswerRevealed /\
        lastOp' \in {"matchLeft", "matchRight", "dragStart", "dragOver",
                     "dragEnd", "select"}) =>
       /\ qv'.matchingState = qv.matchingState
       /\ qv'.orderingState = qv.orderingState
       /\ qv'.selectedOption = qv.selectedOption
       /\ qv'.isCurrentCorrect = qv.isCurrentCorrect
       /\ qv'.score = qv.score
       /\ qv'.isAnswerRevealed]_vars

\* An item was being dragged when the answer was revealed, and a drag-over
\* on another position arrived afterwards.
C5_Witness ==
  /\ Mounted /\ qv.isAnswerRevealed /\ lastOp = "dragOver"
  /\ qv.draggedIdx # NoDrag /\ Len(qv.orderingState) > 1


\* The working state a question starts with.
CanonicalItems(q) ==
  IF q.type = "ORDERING" /\ q.orderingItems # UndefinedItems
    THEN q.orderingItems ELSE <<>>

\* C6: every change of the question index leaves the whole per-question
\* working state re-initialized: no selected option, empty text, not
\* revealed, no verdict, the full time limit, no matching assignment and no
\* selected left item, and an ordering sequence that is a shuffle of the new
\* question's own items (none when it has none).
C6_IndexChangeResets ==
  [][qv'.currentIndex # qv.currentIndex =>
       /\ qv'.selectedOption = Null
       /\ qv'.textAnswer = <<>>
       /\ ~qv'.isAnswerRevealed /\ ~qv'.isCurrentCorrect
       /\ qv'.timeLeft = timeLimit
       /\ qv'.matchingState.matches = EmptyMatches
       /\ qv'.matchingState.selectedLeft = NullLeft
       /\ qv'.orderingState \in Shuffles(CanonicalItems(questions[qv'.currentIndex + 1]))]_vars

\* C7: the index starts at 0, changes only by an advance from the revealed
\* state and then by exactly +1, stays within 0..N-1; an advance on the last
\* question emits the result and leaves the index alone; a session ends only
\* on the last question (or on defeat), after at most N submits.
C7_IndexAdvances ==
  /\ [](lastOp = "mount" => qv.currentIndex = 0)
  /\ [](Mounted => qv.currentIndex \in 0..(Len(questions) - 1))
  /\ [][qv'.currentIndex # qv.currentIndex =>
          /\ lastOp' = "next" /\ qv.isAnswerRevealed
          /\ qv'.currentIndex = qv.currentIndex + 1]_vars
  /\ [][(lastOp' \in {"next", "finish"} /\ qv.currentIndex = Len(questions) - 1) =>
          /\ appState' = "RESULTS" /\ lastResult' # NoResult
          /\ qv'.currentIndex = qv.currentIndex]_vars
  /\ [][lastOp' = "finish" =>
          \/ qv.currentIndex = Len(questions) - 1
          \/ isBossMode /\ qv.playerHealth = 0]_vars
  /\ [](appState = "RESULTS" =>
          NumVerdicts <= Len(questions) /\ NumVerdicts = qv.currentIndex + 1)

\* A session of MaxQ questions completed on its last question.
C7_Witness ==
  /\ appState = "RESULTS" /\ Len(questions) = MaxQ
  /\ qv.currentIndex = MaxQ - 1 /\ NumVerdicts = MaxQ

\* C8: in boss mode an advance taken with the life counter at 0 ends the
\* session at once, whatever the index, with xpEarned = floor(5 * score);
\* no question is unanswered while the life counter is 0.
C8_DefeatEndsSession ==
  /\ [][(isBossMode /\ qv.playerHealth = 0 /\ lastOp' \in {"next", "finish"}) =>
          /\ appState' = "RESULTS"
          /\ lastResult'.xpEarned = 5 * qv.score
          /\ lastResult'.score = qv.score]_vars
  /\ []((Mounted /\ isBossMode /\ qv.playerHealth = 0) => qv.isAnswerRevealed)

\* Defeat on the fourth of five questions, after one correct answer.
C8_Witness ==
  /\ appState = "RESULTS" /\ isBossMode /\ qv.playerHealth = 0
  /\ qv.currentIndex < Len(questions) - 1
  /\ lastResult.score = 1 /\ lastResult.xpEarned = 5

SubmitOps == {"check", "review", "gotIt", "timeout"}

\* C9 as stated: in boss mode every incorrect submit not forced by timeout
\* takes one life (none at 0), every other submit leaves the life counter
\* alone, and the counter stays within 0..3.
C9_Original ==
  /\ [][(isBossMode /\ lastOp' \in SubmitOps) =>
          IF ~qv'.isCurrentCorrect /\ lastOp' # "timeout"
            THEN qv'.playerHealth = (IF qv.playerHealth > 0
                                       THEN qv.playerHealth - 1 ELSE 0)
            ELSE qv'.playerHealth = qv.playerHealth]_vars
  /\ [](qv.playerHealth \in 0..3)

\* C9 amended: in boss mode every incorrect submit of a question that is not
\* a flashcard, not forced by timeout, takes one life (none at 0); timeouts,
\* correct submits and flashcard self-reports leave the life counter alone;
\* the counter stays within 0..3.
C9_LifeLostOnWrongAnswer ==
  /\ [][(isBossMode /\ lastOp' \in SubmitOps) =>
          IF ~qv'.isCurrentCorrect /\ lastOp' = "check"
            THEN qv'.playerHealth = (IF qv.playerHealth > 0
                                       THEN qv.playerHealth - 1 ELSE 0)
            ELSE qv'.playerHealth = qv.playerHealth]_vars
  /\ [](qv.playerHealth \in 0..3)

\* A wrong answer in a boss battle took the second life.
C9_Witness ==
  /\ Mounted /\ isBossMode /\ lastOp = "check" /\ ~qv.isCurrentCorrect
  /\ qv.playerHealth = 1

\* C10: in a boss battle of N questions (1..20) the opponent health after k
\* correct answers is 100 - k * 100 / N up to the rounding of the
\* subtractions, and exactly 0 after N correct answers.
C10_BossHealthExact ==
  (isBossMode /\ appState # "INPUT") =>
     LET n == Len(questions)
         k == qv.score
         off == qv.bossHealth * n - 100 * Scale * (n - k)
     IN /\ k \in 0..n
        /\ k = n => qv.bossHealth = 0
        /\ k < n => (off <= 2 * k * n /\ -off <= 2 * k * n)

\* All 19 questions of a 19-question battle answered correctly.
C10_Witness ==
  /\ isBossMode /\ Len(questions) = 19 /\ qv.score = 19 /\ qv.bossHealth = 0

\* The canonical pairs of question q as an assignment of right to left texts.
Lefts(q) == {q.matchingPairs[k].left : k \in 1..Len(q.matchingPairs)}
Rights(q) == {q.matchingPairs[k].right : k \in 1..Len(q.matchingPairs)}
CanonicalMatches(q) ==
  [l \in Lefts(q) |->
     q.matchingPairs[CHOOSE k \in 1..Len(q.matchingPairs) :
                        q.matchingPairs[k].left = l].right]
HasPairs(s) == isMatching(s) /\ currentQuestion(s).matchingPairs # UndefinedPairs

\* C11: a user-initiated submit of a matching question records a correct
\* verdict exactly when the assignment is the canonical one: every left text
\* of the question assigned its own right text, and nothing else assigned.
C11_MatchingGraded ==
  [][(lastOp' = "check" /\ Mounted /\ HasPairs(qv)) =>
       (qv'.isCurrentCorrect <=>
          qv.matchingState.matches = CanonicalMatches(currentQuestion(qv)))]_vars

\* Three of the four pairs were assigned, all three rightly, and the submit
\* was graded incorrect.
C11_Witness ==
  /\ Mounted /\ lastOp = "check" /\ HasPairs(qv)
  /\ Len(currentQuestion(qv).matchingPairs) = 4
  /\ Cardinality(DOMAIN qv.matchingState.matches) = 3
  /\ \A l \in DOMAIN qv.matchingState.matches :
        qv.matchingState.matches[l] = CanonicalMatches(currentQuestion(qv))[l]
  /\ ~qv.isCurrentCorrect

\* What C12 says a tap on the left item v does to the matching state ms.
LeftTap(ms, v) ==
  [ms EXCEPT !.matches = [l \in DOMAIN ms.matches \ {v} |-> ms.matches[l]],
             !.selectedLeft = v]

\* What C12 says a tap on the right item v does to the matching state ms.
RightTap(ms, v) ==
  IF ms.selectedLeft = NullLeft THEN ms
  ELSE [ms EXCEPT !.matches =
                     [l \in {x \in DOMAIN ms.matches : ms.matches[x] # v}
                               \cup {ms.selectedLeft} |->
                        IF l = ms.selectedLeft THEN v ELSE ms.matches[l]],
                  !.selectedLeft = NullLeft]

\* C12: on an unanswered matching question a tap on a left item selects it
\* and removes its assignment if it had one; a tap on a right item while a
\* left item is selected assigns it to that left item, takes it from any
\* other left item and clears the selection; a tap on a right item with no
\* left item selected changes nothing.
C12_MatchTaps ==
  /\ [][(lastOp' = "matchLeft" /\ ~qv.isAnswerRevealed) =>
          \E v \in Lefts(currentQuestion(qv)) :
             qv'.matchingState = LeftTap(qv.matchingState, v)]_vars
  /\ [][(lastOp' = "matchRight" /\ ~qv.isAnswerRevealed) =>
          \E v \in Rights(currentQuestion(qv)) :
             qv'.matchingState = RightTap(qv.matchingState, v)]_vars

HasItems(s) == isOrdering(s) /\ currentQuestion(s).orderingItems # UndefinedItems

\* seq without its i-th element
Without(seq, i) == [k \in 1..(Len(seq) - 1) |-> IF k < i THEN seq[k] ELSE seq[k + 1]]

\* b is a with one item taken out and put back in at some position.
RepositionsOne(a, b) ==
  /\ Len(a) = Len(b)
  /\ \E i, j \in 1..Len(a) : a[i] = b[j] /\ Without(a, i) = Without(b, j)

ReorderOps == {"dragStart", "dragOver", "dragEnd"}

C14_OrderingGraded ==
  [][(lastOp' = "check" /\ Mounted /\ HasItems(qv)) =>
       (qv'.isCurrentCorrect <=>
          /\ Len(qv.orderingState) = Len(currentQuestion(qv).orderingItems)
          /\ \A i \in 1..Len(qv.orderingState) :
                qv.orderingState[i] = currentQuestion(qv).orderingItems[i])]_vars

\* The first two items of [a, a","a, b] were swapped and the submit was
\* graded incorrect.
C14_Witness ==
  /\ Mounted /\ lastOp = "check" /\ ~qv.isCurrentCorrect
  /\ currentQuestion(qv) = QOrderingQuoted
  /\ qv.orderingState = << QOrderingQuoted.orderingItems[2],
                           QOrderingQuoted.orderingItems[1],
                           QOrderingQuoted.orderingItems[3] >>

\* C15: on a flashcard no countdown runs, the remaining time is never
\* decremented and no submission is forced, whatever the time limit; the
\* verdict recorded is the user's self-report, "got it" correct and
\* "review" incorrect.
C15_FlashcardSelfReported ==
  /\ []((Mounted /\ isFlashcard(qv)) =>
          qv.timers = {} /\ ~qv.isTimeUp /\ qv.timeLeft = timeLimit)
  /\ [][(Mounted /\ isFlashcard(qv)) => lastOp' \notin {"tick", "timeout"}]_vars
  /\ [][lastOp' \in {"gotIt", "review"} =>
          /\ isFlashcard(qv)
          /\ qv'.isAnswerRevealed
          /\ qv'.isCurrentCorrect = (lastOp' = "gotIt")
          /\ verdicts' = recorded(verdicts, lastOp' = "gotIt")]_vars

\* With a time limit set, the first question was graded incorrect and the
\* flashcard after it was answered "got it" with its time untouched.
C15_Witness ==
  /\ Mounted /\ timeLimit = MaxTime /\ qv.currentIndex = 1 /\ isFlashcard(qv)
  /\ questions[1].type = "MULTIPLE_CHOICE"
  /\ verdicts = [correct |-> 1, incorrect |-> 1]
  /\ lastOp = "gotIt" /\ qv.isCurrentCorrect /\ qv.timeLeft = MaxTime

GradedAgainstAnswer(s) == isChoice(s) \/ isShortAnswer(s) \/ isFillInBlank(s)

\* C16: a question graded against correctAnswer (multiple choice, true /
\* false, short answer, fill in the blank) whose correctAnswer is undefined
\* or the empty string is graded incorrect, whatever the user entered.
C16_NoAnswerIsIncorrect ==
  [][(lastOp' = "check" /\ GradedAgainstAnswer(qv)
        /\ currentQuestion(qv).correctAnswer \in {Undefined, <<>>}) =>
       ~qv'.isCurrentCorrect]_vars

\* The normalized texts u and c fall under none of the earlier rules of the
\* text grader: both non-empty, not equal, neither containing the other
\* under the length > 3 rule.
NeedsDistance(u, c) ==
  /\ u # <<>> /\ c # <<>> /\ u # c
  /\ ~(Len(c) > 3 /\ includes(u, c))
  /\ ~(Len(u) > 3 /\ includes(c, u))

\* C17: for short-answer and fill-in-blank questions whose normalized user
\* and correct texts fall under none of the earlier rules, the submit is
\* graded correct exactly when their edit distance is at most
\* max(2, 0.3 * max(len(u), len(c))).
C17_EditDistanceAccepted ==
  [][(lastOp' = "check" /\ (isShortAnswer(qv) \/ isFillInBlank(qv))
        /\ currentQuestion(qv).correctAnswer # Undefined
        /\ NeedsDistance(normalizeText(qv.textAnswer),
                         normalizeText(currentQuestion(qv).correctAnswer))) =>
       (qv'.isCurrentCorrect <=>
          10 * levenshtein(normalizeText(currentQuestion(qv).correctAnswer),
                           normalizeText(qv.textAnswer))
            <= SetMax({20, 3 * SetMax({Len(normalizeText(qv.textAnswer)),
                                       Len(normalizeText(currentQuestion(qv).correctAnswer))})}))]_vars

\* C18: normalizeOptionText is idempotent on every option text.
C18_NormalizeIdempotent ==
  (Mounted /\ isChoice(qv)) =>
     \A i \in 1..Len(currentQuestion(qv).options) :
        normalizeOptionText(normalizeOptionText(currentQuestion(qv).options[i]))
          = normalizeOptionText(currentQuestion(qv).options[i])

\* opt is the text t with a list marker put in front.
IsMarked(opt, t) == \E m \in Markers : opt = m \o t

\* C19: an option that is a text t with a list marker in front matches t;
\* a text whose leading token and separator are not followed by a space
\* keeps its prefix under normalization.
C19_MarkerStripped ==
  /\ [][(lastOp' = "check" /\ isChoice(qv) /\ qv.selectedOption # Null
           /\ currentQuestion(qv).correctAnswer # Undefined
           /\ IsMarked(qv.selectedOption, currentQuestion(qv).correctAnswer)) =>
          qv'.isCurrentCorrect]_vars
  /\ []((Mounted /\ isChoice(qv)) =>
          \A i \in 1..Len(currentQuestion(qv).options) :
             currentQuestion(qv).options[i] \in Decimals =>
               normalizeOptionText(currentQuestion(qv).options[i])
                 = toLowerCase(currentQuestion(qv).options[i]))

\* The session state C20 names.
SessionState(s) ==
  <<s.currentIndex, s.score, s.isCurrentCorrect, s.isAnswerRevealed,
    s.bossHealth, s.playerHealth, s.timeLeft>>

\* C20: a failed validation call leaves the feedback {isCorrect: false,
\* "Could not verify."} and the checking flag false, and neither the call
\* nor its failure changes the index, the score, the verdict, the revealed
\* flag, the boss and player health or the remaining time.
C20_FailedValidationIsLocal ==
  /\ [][(lastOp' = "validationFailed" /\ Mounted) =>
          /\ qv'.explanationFeedback = CouldNotVerify
          /\ ~qv'.isCheckingExplanation]_vars
  /\ [][lastOp' \in {"submitExplanation", "validationFailed"} =>
          SessionState(qv') = SessionState(qv)]_vars

\* In a boss battle the second question was answered wrongly after a right
\* answer to the first, and the validation of the explanation failed.
C20_Witness ==
  /\ Mounted /\ lastOp = "validationFailed" /\ isBossMode
  /\ qv.currentIndex = 1 /\ qv.score = 1 /\ qv.playerHealth = 2
  /\ qv.showExplainModal /\ qv.explanationFeedback = CouldNotVerify
  /\ ~qv.isCheckingExplanation /\ qv.validations = <<>>

\* C21: a failed content-generation call leaves the app in INPUT with the
\* error message set, not in QUIZ, and with InputView on screen, so that a
\* later generate request can be issued.
C21_GenerateFailureRecovers ==
  [][lastOp' = "generateFailed" =>
        /\ appState' = "INPUT"
        /\ app'.error = GenerateFailed
        /\ inputShown']_vars

\* The QuizView on screen calls onFinish in this step.
EmitsResult == app'.finishCalls = app.finishCalls + 1

FreshSession(s, limit) ==
  /\ s.currentIndex = 0 /\ s.score = 0
  /\ s.playerHealth = 3 /\ s.bossHealth = 100 * Scale
  /\ s.selectedOption = Null /\ s.textAnswer = <<>>
  /\ ~s.isAnswerRevealed /\ ~s.isCurrentCorrect /\ ~s.isTimeUp
  /\ s.orderingState = <<>> /\ s.matchingState.matches = EmptyMatches
  /\ s.matchingState.selectedLeft = NullLeft /\ ~s.isCardFlipped
  /\ ~s.showExplainModal /\ s.explanationFeedback = NoFeedback
  /\ s.userExplanation = <<>>
  /\ s.timeLeft = limit

\* C23: every QuizView that App mounts (after a generate request, or by
\* Try Again on the same questions) starts at index 0 with score 0, player
\* life 3, opponent health 100, no selection, text, verdict or modal, and
\* the whole time limit, whatever the earlier sessions left behind.
C23_SessionStartsFresh ==
  [][(appState' = "QUIZ" /\ appState # "QUIZ") =>
        FreshSession(qv', timeLimit')]_vars

\* Try Again after a timed boss battle that was finished with a hit on the
\* opponent, another question selected and answered since.
C23_Witness ==
  /\ Mounted /\ lastOp = "retry" /\ isBossMode /\ timeLimit > 0
  /\ lastResult.score > 0 /\ lastResult.totalQuestions = 2
  /\ FreshSession(qv, timeLimit)

\* C24: settings.allowedTypes always holds at least one question type, each
\* type at most once, and only question types.
C24_AllowedTypesNonEmpty ==
  /\ Len(app.allowedTypes) >= 1
  /\ \A i, j \in 1..Len(app.allowedTypes) :
        i # j => app.allowedTypes[i] # app.allowedTypes[j]
  /\ \A i \in 1..Len(app.allowedTypes) : app.allowedTypes[i] \in QuestionType

\* Six types were switched off and one of them switched on again behind the
\* type that was kept.
C24_Witness ==
  /\ lastOp = "toggleType"
  /\ app.allowedTypes = <<"FLASHCARD", "MULTIPLE_CHOICE">>

\* C25: while the Explain It Back modal is open, the current question is
\* revealed and was answered incorrectly.
C25_ModalOnlyOnRevealed ==
  (Mounted /\ qv.showExplainModal) =>
     (qv.isAnswerRevealed /\ ~qv.isCurrentCorrect)

\* C26: the explanation feedback held by the session was returned for an
\* explanation of the current question.
C26_FeedbackOfCurrentQuestion ==
  (Mounted /\ qv.explanationFeedback # NoFeedback) =>
     qv.explainedIndex = qv.currentIndex

\* C28: in a mounted view the remaining time lies in 0..timeLimit; a tick
\* takes exactly 1 from it and happens only on an unrevealed question that
\* is not a flashcard; nothing else lowers it; and in a timed session a
\* remaining time of 0 is only seen on a question whose submission was
\* forced: revealed, time up and incorrect.
C28_TimeLeftInRange ==
  /\ [](Mounted => (0 <= qv.timeLeft /\ qv.timeLeft <= timeLimit))
  /\ [][(IsTick /\ Mounted) =>
          /\ qv'.timeLeft = qv.timeLeft - 1
          /\ ~qv.isAnswerRevealed /\ ~isFlashcard(qv)]_vars
  /\ [][qv'.timeLeft < qv.timeLeft => IsTick]_vars
  /\ []((Mounted /\ timeLimit > 0 /\ qv.timeLeft = 0) =>
          (qv.isAnswerRevealed /\ qv.isTimeUp /\ ~qv.isCurrentCorrect))

\* The countdown of the second question ran out after the first question
\* was answered with time to spare.
C28_Witness ==
  /\ Mounted /\ lastOp = "timeout" /\ timeLimit = MaxTime
  /\ qv.currentIndex = 1 /\ qv.timeLeft = 0 /\ qv.isTimeUp
  /\ qv.isAnswerRevealed /\ qv.score = 1

\* The left texts of question q are pairwise distinct, and so are its right
\* texts.
DistinctPairs(q) ==
  \A i, j \in 1..Len(q.matchingPairs) :
     i # j => /\ q.matchingPairs[i].left # q.matchingPairs[j].left
              /\ q.matchingPairs[i].right # q.matchingPairs[j].right

\* C29: on a matching question with distinct left and distinct right texts
\* the assignment maps left items of the question to right items of the
\* question, no right item is held by two left items, and the selected left
\* item has no assignment.
C29_OneToOneMatches ==
  (Mounted /\ HasPairs(qv) /\ DistinctPairs(currentQuestion(qv))) =>
     /\ DOMAIN qv.matchingState.matches \subseteq Lefts(currentQuestion(qv))
     /\ \A l \in DOMAIN qv.matchingState.matches :
           qv.matchingState.matches[l] \in Rights(currentQuestion(qv))
     /\ \A l, k \in DOMAIN qv.matchingState.matches :
           l # k => qv.matchingState.matches[l] # qv.matchingState.matches[k]
     /\ qv.matchingState.selectedLeft \notin DOMAIN qv.matchingState.matches

\* C30: in a boss battle the opponent health stays within 0..100 and never
\* rises; it is 0 only when every question of the list was answered
\* correctly; and the result handed over at the end of the session carries
\* xp = 10 * score + 100 when every question was answered correctly and
\* xp = floor(10 * score / 2) otherwise.
C30_BossBonusOnlyWhenAllCorrect ==
  /\ []((Mounted /\ isBossMode) =>
          /\ 0 <= qv.bossHealth /\ qv.bossHealth <= 100 * Scale
          /\ qv.bossHealth = 0 => qv.score = Len(questions))
  /\ [][(Mounted /\ isBossMode) => qv'.bossHealth <= qv.bossHealth]_vars
  /\ [][(lastOp' = "finish" /\ isBossMode) =>
          lastResult'.xpEarned =
            IF qv.score = Len(questions) THEN 10 * qv.score + 100
            ELSE (10 * qv.score) \div 2]_vars

\* A battle of 7 questions ended with 6 right answers and one wrong one:
\* the opponent survived and the xp is halved.
C30_Witness ==
  /\ appState = "RESULTS" /\ lastOp = "finish" /\ isBossMode
  /\ Len(questions) = 7 /\ lastResult.score = 6
  /\ qv.bossHealth > 0 /\ qv.playerHealth = 2
  /\ lastResult.xpEarned = 30

\* C27: while no user is logged in, App is in AUTH.
C27_NoViewWithoutUser ==
  app.user = NoUser => appState = "AUTH"

====
